---- MODULE Spec2Model ----
(***************************************************************************)
(* A model of test_helpers/scipy_comparison.py: main() builds an angular   *)
(* grid, prints a CSV header and then, for every degree n, order m, polar  *)
(* angle phi and azimuthal angle theta, calls scipy.special.sph_harm and   *)
(* prints one CSV row.                                                     *)
(*                                                                         *)
(* The state of one execution of the script is a record: the position in   *)
(* main(), its locals, and what it has done to its surroundings.  Every    *)
(* statement of main() is a function from such a record to the next one.   *)
(*                                                                         *)
(* Angles are exact: they are counted in degrees, so that pi is 180 and    *)
(* every quotient the script forms is an integer.  Floating-point rounding *)
(* of the products is not modelled.                                        *)
(*                                                                         *)
(* sph_harm is a third-party routine.  Its value is the uninterpreted term *)
(* built from its arguments (the most general deterministic function), and *)
(* any call of it may raise instead of returning.                          *)
(*                                                                         *)
(* Standard output and the evaluator are observed through what main() did  *)
(* to them last and how often: the number of lines written and the last    *)
(* line, the number of calls made, the arguments of the last call and      *)
(* whether it raised.  The script never touches a line again once it is    *)
(* written, so a property of every line is stated as a property of every   *)
(* step that writes one.                                                   *)
(***************************************************************************)
EXTENDS Integers, Sequences, FiniteSets

VARIABLES
    run,    \* the execution of the script
    twin    \* a second execution, which moves only in PairSpec

vars == <<run, twin>>

\* from math import pi, in degrees
pi == 180

num_phis == 10

num_thetas == 2 * num_phis

n_max == 10

\* list(range(0, stop, 1)) as a sequence
Range0(stop) == [x \in 1..stop |-> x - 1]

\* MakeThetas with the range of the phis: range(0, num_phis, 1)
MakeThetas_num_phis ==
    [i \in 1..Len(Range0(num_phis)) |-> ((2 * pi) \div num_thetas) * Range0(num_phis)[i]]

\* [2 * pi / num_thetas * x for x in list(range(0, num_thetas, 1))]
MakeThetas ==
    [i \in 1..Len(Range0(num_thetas)) |-> ((2 * pi) \div num_thetas) * Range0(num_thetas)[i]]

\* MakePhis with a range that starts at 1: range(1, num_phis + 1, 1)
MakePhis_from_one ==
    [i \in 1..Len(Range0(num_phis)) |-> (pi \div num_phis) * (Range0(num_phis)[i] + 1)]

\* [pi / num_phis * x for x in list(range(0, num_phis, 1))]
MakePhis ==
    [i \in 1..Len(Range0(num_phis)) |-> (pi \div num_phis) * Range0(num_phis)[i]]

\* the complex value scipy.special.sph_harm(m, n, theta, phi) returns
sph_harm(m, n, theta, phi) ==
    [real |-> <<"Y.real", m, n, theta, phi>>,
     imag |-> <<"Y.imag", m, n, theta, phi>>]

\* HeaderLine with the two angle columns named in loop order
HeaderLine_phi_first ==
    [kind |-> "header", fields |-> <<"n", "m", "phi", "theta", "sph_re", "sph_im">>]

\* the line print("n,m,theta,phi,sph_re,sph_im") writes, as its comma-separated fields
HeaderLine ==
    [kind |-> "header", fields |-> <<"n", "m", "theta", "phi", "sph_re", "sph_im">>]

\* the line "{},{},{},{},{},{}".format(n, m, theta, phi, res.real, res.imag)
Format(n, m, theta, phi, re, im) ==
    [kind |-> "row", fields |-> <<n, m, theta, phi, re, im>>]

\* nothing written yet, nothing called yet, res not yet bound
NoLine == [kind |-> "none", fields |-> <<>>]

NoCall == <<>>

NoRes == [real |-> <<>>, imag |-> <<>>]

\* What surrounds an execution and main() never reads: the command line, the
\* environment variables.
Ambient == {"plain", "other"}

\* the script at its start, lines 30-31: main() is entered with no argument
Fresh(environ) ==
    [pc        |-> "grid",    \* "grid", "header", "eval", "write", "done", "failed"
     environ   |-> environ,
     thetas    |-> <<>>,      \* local list thetas (empty before line 16 ran)
     phis      |-> <<>>,      \* local list phis   (empty before line 17 ran)
     n         |-> 0,         \* loop variable of line 20
     m         |-> 0,         \* loop variable of line 21
     phi_i     |-> 1,         \* position (from 1) in phis of the loop of line 22
     theta_i   |-> 1,         \* position (from 1) in thetas of the loop of line 23
     res       |-> NoRes,     \* local res of line 24
     n_calls   |-> 0,         \* number of calls of sph_harm made so far
     last_call |-> NoCall,    \* arguments of the last call of sph_harm
     raised    |-> FALSE,     \* whether the last call of sph_harm raised
     out_len   |-> 0,         \* number of lines written to standard output
     out_last  |-> NoLine]    \* the last line written to standard output

\* lines 14-18: the constants and the two angle lists
BuildGrid(s) ==
    [s EXCEPT !.thetas = MakeThetas, !.phis = MakePhis, !.pc = "header"]

\* EnterLoops with a switch read from the surroundings that skips the loops
EnterLoops_environ(s) ==
    IF s.environ = "plain" /\ 0 < n_max + 1 /\ Len(s.phis) > 0 /\ Len(s.thetas) > 0
    THEN [s EXCEPT !.n = 0, !.m = -0, !.phi_i = 1, !.theta_i = 1, !.pc = "eval"]
    ELSE [s EXCEPT !.pc = "done"]

\* the four loops of lines 20-23 at their first iteration, or the end of
\* main() when there is nothing to iterate over
EnterLoops(s) ==
    IF 0 < n_max + 1 /\ Len(s.phis) > 0 /\ Len(s.thetas) > 0
    THEN [s EXCEPT !.n = 0, !.m = -0, !.phi_i = 1, !.theta_i = 1, !.pc = "eval"]
    ELSE [s EXCEPT !.pc = "done"]

\* line 19, then the loop headers of lines 20-23
WriteHeader(s) ==
    EnterLoops([s EXCEPT !.out_len = @ + 1, !.out_last = HeaderLine])

\* the arguments of the call of line 24
CallArgs(s) == <<s.m, s.n, s.thetas[s.theta_i], s.phis[s.phi_i]>>

\* Advance with the loop over n one iteration short: range(0, n_max)
Advance_n_short(s) ==
    IF s.theta_i < Len(s.thetas)
    THEN [s EXCEPT !.theta_i = @ + 1, !.pc = "eval"]
    ELSE IF s.phi_i < Len(s.phis)
    THEN [s EXCEPT !.theta_i = 1, !.phi_i = @ + 1, !.pc = "eval"]
    ELSE IF s.m + 1 < s.n + 1
    THEN [s EXCEPT !.theta_i = 1, !.phi_i = 1, !.m = @ + 1, !.pc = "eval"]
    ELSE IF s.n + 1 < n_max
    THEN [s EXCEPT !.theta_i = 1, !.phi_i = 1, !.n = s.n + 1, !.m = -(s.n + 1),
                   !.pc = "eval"]
    ELSE [s EXCEPT !.pc = "done"]

\* Advance with the loops over phi and theta nested the other way round
Advance_phi_inner(s) ==
    IF s.phi_i < Len(s.phis)
    THEN [s EXCEPT !.phi_i = @ + 1, !.pc = "eval"]
    ELSE IF s.theta_i < Len(s.thetas)
    THEN [s EXCEPT !.phi_i = 1, !.theta_i = @ + 1, !.pc = "eval"]
    ELSE IF s.m + 1 < s.n + 1
    THEN [s EXCEPT !.theta_i = 1, !.phi_i = 1, !.m = @ + 1, !.pc = "eval"]
    ELSE IF s.n + 1 < n_max + 1
    THEN [s EXCEPT !.theta_i = 1, !.phi_i = 1, !.n = s.n + 1, !.m = -(s.n + 1),
                   !.pc = "eval"]
    ELSE [s EXCEPT !.pc = "done"]

\* Advance with the loop over m starting one too high: range(-n + 1, n + 1)
Advance_m_late(s) ==
    IF s.theta_i < Len(s.thetas)
    THEN [s EXCEPT !.theta_i = @ + 1, !.pc = "eval"]
    ELSE IF s.phi_i < Len(s.phis)
    THEN [s EXCEPT !.theta_i = 1, !.phi_i = @ + 1, !.pc = "eval"]
    ELSE IF s.m + 1 < s.n + 1
    THEN [s EXCEPT !.theta_i = 1, !.phi_i = 1, !.m = @ + 1, !.pc = "eval"]
    ELSE IF s.n + 1 < n_max + 1
    THEN [s EXCEPT !.theta_i = 1, !.phi_i = 1, !.n = s.n + 1, !.m = -(s.n + 1) + 1,
                   !.pc = "eval"]
    ELSE [s EXCEPT !.pc = "done"]

\* the next iteration of the loops of lines 20-23, innermost first
Advance(s) ==
    IF s.theta_i < Len(s.thetas)
    THEN [s EXCEPT !.theta_i = @ + 1, !.pc = "eval"]
    ELSE IF s.phi_i < Len(s.phis)
    THEN [s EXCEPT !.theta_i = 1, !.phi_i = @ + 1, !.pc = "eval"]
    ELSE IF s.m + 1 < s.n + 1
    THEN [s EXCEPT !.theta_i = 1, !.phi_i = 1, !.m = @ + 1, !.pc = "eval"]
    ELSE IF s.n + 1 < n_max + 1
    THEN [s EXCEPT !.theta_i = 1, !.phi_i = 1, !.n = s.n + 1, !.m = -(s.n + 1),
                   !.pc = "eval"]
    ELSE [s EXCEPT !.pc = "done"]

\* EvalReturns with degree and order exchanged in the call: sph_harm(n, m, theta, phi)
EvalReturns_swapped(s) ==
    [s EXCEPT !.n_calls = @ + 1,
              !.last_call = <<s.n, s.m, s.thetas[s.theta_i], s.phis[s.phi_i]>>,
              !.raised = FALSE,
              !.res = sph_harm(s.n, s.m, s.thetas[s.theta_i], s.phis[s.phi_i]),
              !.pc = "write"]

\* line 24, sph_harm returns
EvalReturns(s) ==
    [s EXCEPT !.n_calls = @ + 1,
              !.last_call = CallArgs(s),
              !.raised = FALSE,
              !.res = sph_harm(CallArgs(s)[1], CallArgs(s)[2], CallArgs(s)[3], CallArgs(s)[4]),
              !.pc = "write"]

\* EvalRaises with the exception caught in the loop body, which goes on with
\* the next theta (try: ... except: continue)
EvalRaises_continue(s) ==
    Advance([s EXCEPT !.n_calls = @ + 1, !.last_call = CallArgs(s), !.raised = TRUE])

\* EvalRaises with the exception caught around the loops and main() returning
EvalRaises_exit0(s) ==
    [s EXCEPT !.n_calls = @ + 1,
              !.last_call = CallArgs(s),
              !.raised = TRUE,
              !.pc = "done"]

\* line 24, sph_harm raises: nothing catches the exception, main() and the
\* script end with it
EvalRaises(s) ==
    [s EXCEPT !.n_calls = @ + 1,
              !.last_call = CallArgs(s),
              !.raised = TRUE,
              !.pc = "failed"]

\* the line of lines 25-27
RowLine(s) ==
    Format(s.n, s.m, s.thetas[s.theta_i], s.phis[s.phi_i], s.res.real, s.res.imag)

\* lines 25-27, then the loop headers
WriteRow(s) ==
    Advance([s EXCEPT !.out_len = @ + 1, !.out_last = RowLine(s)])

\* main() has ended, normally or by the exception
Terminated(s) == s.pc \in {"done", "failed"}

(***************************************************************************)
(* One execution                                                           *)
(***************************************************************************)
Init ==
    \E e \in Ambient :
        /\ run = Fresh(e)
        /\ twin = Fresh(e)

StepBuildGrid ==
    /\ run.pc = "grid"
    /\ run' = BuildGrid(run)
    /\ UNCHANGED twin

StepWriteHeader ==
    /\ run.pc = "header"
    /\ run' = WriteHeader(run)
    /\ UNCHANGED twin

StepEvalReturns ==
    /\ run.pc = "eval"
    /\ run' = EvalReturns(run)
    /\ UNCHANGED twin

StepEvalRaises ==
    /\ run.pc = "eval"
    /\ run' = EvalRaises(run)
    /\ UNCHANGED twin

StepWriteRow ==
    /\ run.pc = "write"
    /\ run' = WriteRow(run)
    /\ UNCHANGED twin

Next ==
    \/ StepBuildGrid
    \/ StepWriteHeader
    \/ StepEvalReturns
    \/ StepEvalRaises
    \/ StepWriteRow

Spec == Init /\ [][Next]_vars

\* main() is the only thread of the script and nothing suspends it
FairSpec == Spec /\ WF_vars(Next)

(***************************************************************************)
(* Two executions stepped side by side against the same evaluator          *)
(***************************************************************************)

\* the next statement of main(); returns tells whether a call of sph_harm
\* made by it returns
Step(s, returns) ==
    CASE s.pc = "grid"   -> BuildGrid(s)
      [] s.pc = "header" -> WriteHeader(s)
      [] s.pc = "eval"   -> IF returns THEN EvalReturns(s) ELSE EvalRaises(s)
      [] s.pc = "write"  -> WriteRow(s)
      [] OTHER           -> s

\* both executions call sph_harm now, with the same arguments
SameCall == run.pc = "eval" /\ twin.pc = "eval" /\ CallArgs(run) = CallArgs(twin)

PairInit ==
    \E e1 \in Ambient, e2 \in Ambient :
        /\ run = Fresh(e1)
        /\ twin = Fresh(e2)

\* each execution takes its next statement; the evaluator is a function, so
\* the same call has the same outcome in both
PairNext ==
    /\ ~(Terminated(run) /\ Terminated(twin))
    /\ \E r1 \in BOOLEAN, r2 \in BOOLEAN :
          /\ SameCall => r1 = r2
          /\ run' = Step(run, r1)
          /\ twin' = Step(twin, r2)

PairSpec == PairInit /\ [][PairNext]_vars


(***************************************************************************)
(* Vocabulary of the properties                                            *)
(***************************************************************************)

\* this step writes to standard output
WroteLine == run'.out_len # run.out_len

\* this step writes a data row
WroteRow == WroteLine /\ run'.out_last.kind = "row"

\* this step calls sph_harm
Called == run'.n_calls # run.n_calls

\* the position (from 0) of value v in the list seq
IndexOf(seq, v) == CHOOSE i \in 0..(Len(seq) - 1) : seq[i + 1] = v

\* the key (n, m, phi-index, theta-index) of a data row
Key(s, line) ==
    <<line.fields[1], line.fields[2],
      IndexOf(s.phis, line.fields[4]), IndexOf(s.thetas, line.fields[3])>>

\* the key (n, m, phi-index, theta-index) of the arguments (m, n, theta, phi) of a call
KeyOfCall(s, args) ==
    <<args[2], args[1], IndexOf(s.phis, args[4]), IndexOf(s.thetas, args[3])>>

\* lexicographic order on keys
LexLess(a, b) ==
    \/ a[1] < b[1]
    \/ a[1] = b[1] /\ a[2] < b[2]
    \/ a[1] = b[1] /\ a[2] = b[2] /\ a[3] < b[3]
    \/ a[1] = b[1] /\ a[2] = b[2] /\ a[3] = b[3] /\ a[4] < b[4]

\* {(n, m, j, k) : 0 <= n <= 10, -n <= m <= n, 0 <= j < 10, 0 <= k < 20}
IndexSpace ==
    {t \in (0..10) \X (-10..10) \X (0..9) \X (0..19) : -t[1] <= t[2] /\ t[2] <= t[1]}

\* a data row lies on the grid: theta = 2*pi*k/20 and phi = pi*j/10 for integers k, j
OnGrid(line) ==
    /\ (line.fields[3] * 20) % (2 * pi) = 0
    /\ (line.fields[4] * 10) % pi = 0

\* the index tuple (n, m, j, k) a data row stands for
TupleOf(line) ==
    <<line.fields[1], line.fields[2],
      (line.fields[4] * 10) \div pi, (line.fields[3] * 20) \div (2 * pi)>>

\* the place (from 1) of an index tuple in the iteration order: 200 rows for
\* each (n, m), and n*n pairs (n', m') with n' < n
Rank(t) == (t[1] * t[1] + t[2] + t[1]) * 200 + t[3] * 20 + t[4] + 1

\* Rank numbers the index space from 1 to 24,200 without gap or repetition
RankIsOneToOne ==
    /\ Cardinality(IndexSpace) = 24200
    /\ {Rank(t) : t \in IndexSpace} = 1..24200

(***************************************************************************)
(* C1. A run of main() in which no evaluation fails writes exactly one     *)
(* header line followed by exactly 24,200 data rows (121 (n, m) pairs x 10 *)
(* phi values x 20 theta values), 24,201 lines in total: when main() is    *)
(* done 24,201 lines are written, every step that writes writes one line,  *)
(* the first line written is a header and every later one a data row.      *)
(***************************************************************************)
C1_LineCount ==
    /\ [](run.pc = "done" =>
            /\ run.out_len = 24201
            /\ run.out_len - 1 = 121 * 10 * 20
            /\ ~run.raised)
    /\ [][WroteLine =>
            /\ run'.out_len = run.out_len + 1
            /\ run'.out_last.kind = (IF run.out_len = 0 THEN "header" ELSE "row")]_vars

C1_Witness == run.pc = "done" /\ run.n_calls = 24200 /\ run.out_last.kind = "row"

(***************************************************************************)
(* C2. The data rows are written in strictly ascending lexicographic order *)
(* of the key (n, m, phi-index, theta-index): a data row written after     *)
(* another data row has the strictly larger key; the first data row has    *)
(* the least key (0, 0, 0, 0), the last one the greatest, (10, 10, 9, 19). *)
(***************************************************************************)
C2_RowOrder ==
    /\ [][WroteRow /\ run.out_len >= 2 =>
            LexLess(Key(run, run.out_last), Key(run, run'.out_last))]_vars
    /\ [](run.out_len = 2 => Key(run, run.out_last) = <<0, 0, 0, 0>>)
    /\ [](run.pc = "done" => Key(run, run.out_last) = <<10, 10, 9, 19>>)

C2_Witness ==
    /\ run.out_len = 202
    /\ Key(run, run.out_last) = <<1, -1, 0, 0>>

(***************************************************************************)
(* C3. In a run that completes, the data rows are in one-to-one            *)
(* correspondence with the index space {(n, m, j, k) : 0 <= n <= 10,       *)
(* -n <= m <= n, 0 <= j < 10, 0 <= k < 20}: the i-th data row is the row   *)
(* of the i-th tuple of the index space (Rank), the rows are numbered      *)
(* 1, 2, ... up to the size of the index space, and Rank is one-to-one     *)
(* from the index space onto these numbers; so every tuple is emitted      *)
(* exactly once, and no row has n outside [0, 10] or |m| > n.              *)
(***************************************************************************)
C3_IndexSpace ==
    /\ RankIsOneToOne
    /\ [](run.out_len >= 2 =>
            /\ OnGrid(run.out_last)
            /\ TupleOf(run.out_last) \in IndexSpace
            /\ Rank(TupleOf(run.out_last)) = run.out_len - 1
            /\ 0 <= run.out_last.fields[1] /\ run.out_last.fields[1] <= 10
            /\ -run.out_last.fields[1] <= run.out_last.fields[2]
            /\ run.out_last.fields[2] <= run.out_last.fields[1])
    /\ [](run.pc = "done" => run.out_len - 1 = Cardinality(IndexSpace))
    /\ [][WroteLine => run'.out_len = run.out_len + 1]_vars

C3_Witness ==
    /\ run.pc = "done"
    /\ TupleOf(run.out_last) = <<10, 10, 9, 19>>
    /\ Rank(TupleOf(run.out_last)) = 24200

(***************************************************************************)
(* C4. The literal header line n,m,theta,phi,sph_re,sph_im is the first    *)
(* line written; it is written exactly once (every later line is a data    *)
(* row) and before any data row or evaluation; nothing is written after    *)
(* the last data row: at completion the last line of output is the data    *)
(* row for n = 10, m = 10, phi-index 9, theta-index 19, and no step        *)
(* follows completion.                                                     *)
(***************************************************************************)
C4_Header ==
    /\ [](run.out_len = 1 =>
            /\ run.out_last.kind = "header"
            /\ run.out_last.fields = <<"n", "m", "theta", "phi", "sph_re", "sph_im">>)
    /\ [](run.out_len >= 2 => run.out_last.kind = "row")
    /\ [](run.out_len = 0 => run.n_calls = 0)
    /\ [][WroteLine => run'.out_len = run.out_len + 1]_vars
    /\ [][Called => run.out_len >= 1]_vars
    /\ [](run.pc = "done" =>
            /\ run.out_last.kind = "row"
            /\ Key(run, run.out_last) = <<10, 10, 9, 19>>
            /\ run.out_last.fields[3] * 20 = 2 * pi * 19
            /\ run.out_last.fields[4] * 10 = pi * 9)
    /\ [][run.pc # "done"]_vars

C4_Witness ==
    /\ run.pc = "done"
    /\ run.out_len > 1
    /\ run.out_last.fields[1] = 10
    /\ run.out_last.fields[2] = 10

(***************************************************************************)
(* C5. If the evaluation fails for some tuple, the run aborts at that      *)
(* tuple: the failing step writes nothing and leaves the output as it is,  *)
(* the run is then in the failure outcome and not in the success outcome,  *)
(* no step follows (no row for a later tuple, no retry), there is one line *)
(* per call made, the header standing for the failed call (so no row for   *)
(* the failing tuple), every row written precedes the failing tuple, and   *)
(* the failing call is the only call made for its tuple.                   *)
(***************************************************************************)
C5_Abort ==
    /\ [](run.raised => run.pc = "failed")
    /\ [][run'.raised =>
            /\ run.pc = "eval"
            /\ run'.pc = "failed"
            /\ run'.out_len = run.out_len
            /\ run'.out_last = run.out_last
            /\ run'.n_calls = run.n_calls + 1
            /\ run'.last_call = <<run.m, run.n, run.thetas[run.theta_i], run.phis[run.phi_i]>>]_vars
    /\ [](run.pc = "failed" =>
            /\ run.raised
            /\ run.out_len = run.n_calls
            /\ run.n_calls = Rank(KeyOfCall(run, run.last_call))
            /\ run.out_len >= 2 =>
                  LexLess(Key(run, run.out_last), KeyOfCall(run, run.last_call)))
    /\ [][run.pc # "failed"]_vars

C5_Witness ==
    /\ run.pc = "failed"
    /\ run.raised
    /\ run.out_len = 203
    /\ run.last_call = <<-1, 1, 2 * ((2 * pi) \div 20), 0>>

(***************************************************************************)
(* C6. Every run of main() eventually terminates, and it terminates in     *)
(* exactly one of two final states: completed, with the header and all     *)
(* 24,200 data rows written and no failed evaluation, or aborted on the    *)
(* first evaluation failure; no run ends successfully with fewer than all  *)
(* data rows written.  A state is final exactly when no step is possible.  *)
(***************************************************************************)
C6_Terminates ==
    /\ <>[](Terminated(run))
    /\ [](Terminated(run) <=> ~ENABLED Next)
    /\ [](run.pc = "done" => run.out_len = 24201 /\ ~run.raised)
    /\ [](run.pc = "failed" => run.raised /\ run.out_len = run.n_calls)
    /\ [][run'.raised => ~run.raised]_vars

C6_Witness == run.pc = "done" /\ run.out_len = 24201 /\ ~run.raised /\ ~ENABLED Next

C8_Thetas ==
    run.pc # "grid" =>
        /\ Len(run.thetas) = 20
        /\ Len(run.thetas) = 2 * Len(run.phis)
        /\ \A k \in 0..19 : run.thetas[k + 1] * 20 = 2 * pi * k
        /\ run.thetas[1] = 0
        /\ \A k \in 1..19 : run.thetas[k] < run.thetas[k + 1]
        /\ \A k \in 1..19 : (run.thetas[k + 1] - run.thetas[k]) * 10 = pi
        /\ \A k \in 1..20 : run.thetas[k] < 2 * pi

C8_Witness == run.pc = "header" /\ Len(run.thetas) = 20 /\ run.thetas[20] * 20 = 2 * pi * 19

(***************************************************************************)
(* C9. The phi sequence built by main() has exactly 10 elements            *)
(* (num_phis), its j-th element is pi*j/10 for j in [0, 10), so it starts  *)
(* at 0, is strictly increasing, every consecutive step equals pi/10, and  *)
(* every element is below pi.                                              *)
(***************************************************************************)
C9_Phis ==
    run.pc # "grid" =>
        /\ Len(run.phis) = 10
        /\ \A j \in 0..9 : run.phis[j + 1] * 10 = pi * j
        /\ run.phis[1] = 0
        /\ \A j \in 1..9 : run.phis[j] < run.phis[j + 1]
        /\ \A j \in 1..9 : (run.phis[j + 1] - run.phis[j]) * 10 = pi
        /\ \A j \in 1..10 : run.phis[j] < pi

C9_Witness == run.pc = "header" /\ Len(run.phis) = 10 /\ run.phis[10] * 10 = pi * 9

(***************************************************************************)
(* C10. For every data row the evaluator is called exactly once, before    *)
(* the row is written, with the arguments (m, n, theta, phi) of the        *)
(* current loop indices, and the row written is (n, m, theta, phi, re, im) *)
(* with the n, m, theta, phi of that call and re, im the real and          *)
(* imaginary part of its result: a call is made only when every earlier    *)
(* call has its row, a row is written only when one call is without a row, *)
(* and that call is the last one and has returned.                         *)
(***************************************************************************)
C10_CallPerRow ==
    /\ [][Called =>
            /\ run'.n_calls = run.n_calls + 1
            /\ run.n_calls = run.out_len - 1
            /\ run'.last_call = <<run.m, run.n, run.thetas[run.theta_i], run.phis[run.phi_i]>>
            /\ ~run'.raised =>
                  /\ run'.res.real = <<"Y.real", run.m, run.n,
                                       run.thetas[run.theta_i], run.phis[run.phi_i]>>
                  /\ run'.res.imag = <<"Y.imag", run.m, run.n,
                                       run.thetas[run.theta_i], run.phis[run.phi_i]>>]_vars
    /\ [][WroteRow =>
            /\ run.n_calls = run.out_len
            /\ ~run.raised
            /\ run.last_call = <<run.m, run.n, run.thetas[run.theta_i], run.phis[run.phi_i]>>
            /\ run'.out_last.fields =
                  <<run.last_call[2], run.last_call[1], run.last_call[3], run.last_call[4],
                    run.res.real, run.res.imag>>]_vars
    /\ [](run.pc = "done" => run.n_calls = run.out_len - 1)

C10_Witness ==
    /\ run.pc = "eval"
    /\ run.out_len = 202
    /\ run.last_call = <<-1, 1, 0, 0>>
    /\ run.out_last.fields = <<1, -1, 0, 0, run.res.real, run.res.imag>>

====
